---- MODULE Spec2Model ----
(***************************************************************************)
(* Model of playdeckBridge.js: the browser-side bridge between a Unity     *)
(* WebGL build, the Telegram WebApp payment button and the AdsGram SDK.    *)
(*                                                                         *)
(* The page is single-threaded.  Every action below is one event-loop      *)
(* task: a call made by the host runtime, a timer callback, a click, or    *)
(* a promise reaction.  Tasks that are timer callbacks or clicks only run  *)
(* when no promise reaction is pending (microtasks drain first).           *)
(***************************************************************************)
EXTENDS Integers, Sequences, FiniteSets, TLC

\* ---------------------------------------------------------------- bounds
MaxSends == 1          \* logical sendToUnity calls started by ad functions
MaxPurchases == 2      \* invocations of PlayDeck_BuyItemWithStars
MaxCallDepth == 3      \* nested calls before the engine raises RangeError
MaxGlobals == 2        \* SDK globals the page defines during the session

\* ------------------------------------------------------ program constants
DEFAULT_AD_BLOCK_ID == "15960"
UNITY_SEND_RETRY_MS == 250
UNITY_SEND_MAX_RETRIES == 30
maxInitAttempts == 10

Null == "null"

\* Host-runtime instances the page may hold.  uA and uB have a working
\* SendMessage, uNoFn has no SendMessage function, uThrow's SendMessage
\* throws.
Instances == {"uA", "uB", "uNoFn", "uThrow"}
HasSendMessage(u) == u \in {"uA", "uB", "uThrow"}
SendMessageThrows(u) == u = "uThrow"

VARIABLES
    bridge,        \* the bridge object: [unityInstance, init]
    windowUnity,   \* window.unityInstance
    initCall,      \* last call of window.playDeckBridge.init: [arg, outcome]
    sends,         \* the logical sendToUnity calls, in start order
    retryQueue,    \* the sends with an armed retry timer, earliest deadline first
    tg,            \* what window.Telegram holds
    mainButton,    \* Telegram.WebApp.MainButton: visibility, progress, label, click handlers
    purchases,     \* the invocations of PlayDeck_BuyItemWithStars, in call order
    payments,      \* queue of simulateTelegramPayment timers in flight
    adsState,      \* [ready, globalName]
    initAttempts,  \* counter of the detection poll
    initTimer,     \* TRUE while the detection interval is armed
    adFns,         \* which ad functions are installed: "stub" or "real"
    globals,       \* the SDK-related names defined on window
    adCalls,       \* last call of PlayDeck_AreAdsAvailable: [called, ret, readyAtCall, fns]
    hostCall,      \* last call of an exposed PlayDeck_* function and how it ended
    lastInit,      \* last run of initializeAdsGramIfPossible: [called, detected, success]
    swaps          \* number of runs of exposeRealAdFunctions

vars == <<bridge, windowUnity, initCall, sends, retryQueue, tg, mainButton, purchases,
          payments, adsState, initAttempts, initTimer, adFns, globals, adCalls,
          hostCall, lastInit, swaps>>

deliveryVars == <<bridge, windowUnity, initCall, sends, retryQueue, hostCall>>
purchaseVars == <<tg, mainButton, purchases, payments>>
adsVars == <<adsState, initAttempts, initTimer, adFns, globals, adCalls, lastInit, swaps>>

\* ======================================================= Message Delivery

\* A fresh closure of sendToUnity: tries = 0, no timer yet.
NewSend(objectName, methodName, message) ==
    [objectName |-> objectName, methodName |-> methodName, message |-> message,
     tries |-> 0, timer |-> FALSE, status |-> "pending", receiver |-> Null,
     lastAttempt |-> "none"]

\* The instance an attempt uses: the registered handle when it is truthy,
\* else window.unityInstance.
PickInstance(br, wu) ==
    IF br.unityInstance # Null THEN br.unityInstance ELSE wu

GiveUpOffByOne(tries) ==
    tries * UNITY_SEND_RETRY_MS > UNITY_SEND_MAX_RETRIES * UNITY_SEND_RETRY_MS

\* The give-up test made after a failed attempt.
GiveUp(tries) ==
    tries * UNITY_SEND_RETRY_MS >= UNITY_SEND_MAX_RETRIES * UNITY_SEND_RETRY_MS

AfterFailureAlwaysRetry(s) ==
    [s EXCEPT !.timer = TRUE]

\* What a failed attempt does next: give up, or arm the retry timer.
AfterFailure(s) ==
    IF GiveUp(s.tries) THEN [s EXCEPT !.status = "gaveup", !.timer = FALSE]
    ELSE [s EXCEPT !.timer = TRUE]

TrySendThrowAborts(s, br, wu) ==
    LET t == [s EXCEPT !.tries = s.tries + 1, !.timer = FALSE]
        instance == PickInstance(br, wu)
    IN  IF instance # Null /\ HasSendMessage(instance)
        THEN IF SendMessageThrows(instance)
             THEN [t EXCEPT !.lastAttempt = "threw"]
             ELSE [t EXCEPT !.status = "sent", !.receiver = instance,
                            !.lastAttempt = "sent"]
        ELSE AfterFailure([t EXCEPT !.lastAttempt = "noInstance"])

\* One run of trySend on closure s.  lastAttempt records what the attempt
\* met: no callable instance, a SendMessage that threw, or a delivery.
TrySend(s, br, wu) ==
    LET t == [s EXCEPT !.tries = s.tries + 1, !.timer = FALSE]
        instance == PickInstance(br, wu)
    IN  IF instance # Null /\ HasSendMessage(instance)
        THEN IF SendMessageThrows(instance)
             THEN AfterFailure([t EXCEPT !.lastAttempt = "threw"])
             ELSE [t EXCEPT !.status = "sent", !.receiver = instance,
                            !.lastAttempt = "sent"]
        ELSE AfterFailure([t EXCEPT !.lastAttempt = "noInstance"])

\* sendToUnity: build the closure and make the first attempt at once.
SendToUnity(objectName, methodName, message) ==
    TrySend(NewSend(objectName, methodName, message), bridge, windowUnity)

\* setTimeout(trySend, 250) for send i with closure s: every retry timer
\* has the same delay, so the timers fire in the order they were armed.
Requeue(q, i, s) == IF s.timer THEN Append(q, i) ELSE q

\* The retry timer of send i fires: it is the one armed first.
RetryTimer(i) ==
    /\ sends[i].timer
    /\ retryQueue # <<>> /\ Head(retryQueue) = i
    /\ sends' = [sends EXCEPT ![i] = TrySend(sends[i], bridge, windowUnity)]
    /\ retryQueue' = Requeue(Tail(retryQueue), i, TrySend(sends[i], bridge, windowUnity))
    /\ UNCHANGED <<bridge, windowUnity, initCall, hostCall>>
    /\ UNCHANGED <<purchaseVars, adsVars>>

\* ------------------------------------------------------------ the bridge

\* The object literal of the bridge.
BridgeObject == [unityInstance |-> Null, init |-> "bridge.init"]

\* Object.assign(target, source) for the one property both objects have;
\* it writes into target and returns target.
ObjectAssign(target, source) == [target EXCEPT !.init = source.init]

\* The final setup: window.playDeckBridge is the bridge object itself, so
\* the assignment replaces the init slot of the bridge object.
FinalSetup(b) == ObjectAssign(b, [init |-> "wrapper"])

\* bridge.init(unity), the method of the object literal.
BridgeInit(b, unity) == [b EXCEPT !.unityInstance = unity]

\* Outcome of calling the function held in slot fn with the stack at depth.
\* The wrapper calls bridge.init, that is, whatever the slot holds now.
RECURSIVE InvokeInit(_, _, _)
InvokeInit(b, fn, depth) ==
    IF depth > MaxCallDepth THEN "RangeError"
    ELSE IF fn = "bridge.init" THEN "returned"
    ELSE InvokeInit(b, b.init, depth + 1)

\* The host page calls window.playDeckBridge.init(u).
CallInit(u) ==
    LET outcome == InvokeInit(bridge, bridge.init, 1)
    IN  /\ bridge' = IF outcome = "returned" THEN BridgeInit(bridge, u) ELSE bridge
        /\ initCall' = [arg |-> u, outcome |-> outcome]
        /\ UNCHANGED <<windowUnity, sends, retryQueue, hostCall>>
        /\ UNCHANGED <<purchaseVars, adsVars>>

\* The page's loader stores (or clears) window.unityInstance.
SetWindowUnity(u) ==
    /\ windowUnity # u
    /\ windowUnity' = u
    /\ UNCHANGED <<bridge, initCall, sends, retryQueue, hostCall>>
    /\ UNCHANGED <<purchaseVars, adsVars>>

\* ============================================================ Stub Surface

UnguardedCall(bodyThrows) == IF bodyThrows THEN "threw" ELSE "returned"

\* try { body } catch (e) { }: whether or not the body throws, the caller
\* of the exposed function sees a normal return.
GuardedCall(bodyThrows) == "returned"

\* The record of a call of an exposed function: how it ended, what it
\* returned, which ad functions were installed and whether adsState.ready
\* held at the call, the send it started (0 for none) and its block id.
HostCall(fn, outcome, ret, sendIndex, blockId) ==
    [fn |-> fn, outcome |-> outcome, ret |-> ret, fns |-> adFns,
     ready |-> adsState.ready, sendIndex |-> sendIndex, blockId |-> blockId]

NoHostCall ==
    [fn |-> "none", outcome |-> "returned", ret |-> "undefined", fns |-> "stub",
     ready |-> FALSE, sendIndex |-> 0, blockId |-> Null]

\* PlayDeck_SetLoading(progress): logs.
SetLoading ==
    /\ hostCall' = HostCall("PlayDeck_SetLoading", GuardedCall(FALSE), "undefined", 0, Null)
    /\ UNCHANGED <<bridge, windowUnity, initCall, sends, retryQueue>>
    /\ UNCHANGED <<purchaseVars, adsState, initAttempts, initTimer, adFns, globals,
                   adCalls, lastInit, swaps>>

\* PlayDeck_GameEnd(): logs and posts the gameEnd message to the parent
\* frame; postThrows says whether postMessage throws.
GameEnd(postThrows) ==
    /\ hostCall' = HostCall("PlayDeck_GameEnd", GuardedCall(postThrows), "undefined", 0, Null)
    /\ UNCHANGED <<bridge, windowUnity, initCall, sends, retryQueue>>
    /\ UNCHANGED <<purchaseVars, adsState, initAttempts, initTimer, adFns, globals,
                   adCalls, lastInit, swaps>>

\* PlayDeck_Analytics(eventName, payload): logs.
Analytics ==
    /\ hostCall' = HostCall("PlayDeck_Analytics", GuardedCall(FALSE), "undefined", 0, Null)
    /\ UNCHANGED <<bridge, windowUnity, initCall, sends, retryQueue>>
    /\ UNCHANGED <<purchaseVars, adsState, initAttempts, initTimer, adFns, globals,
                   adCalls, lastInit, swaps>>

\* ========================================================== Purchase Flow

Items == {"sword", "shield"}

\* What window.Telegram can hold: no WebApp at all, or a WebApp with or
\* without a MainButton and with or without initDataUnsafe.user.id.
TgStates ==
    {[webApp |-> FALSE, mainButton |-> FALSE, user |-> FALSE]} \cup
    {[webApp |-> TRUE, mainButton |-> m, user |-> u] : m \in BOOLEAN, u \in BOOLEAN}

\* The PurchaseResult objects the code builds.
Failure(error) == [success |-> FALSE, error |-> error]
NotAvailable == Failure("Telegram WebApp not available")
NotSupported == Failure("Telegram payments not supported")
NotIdentified == Failure("User not identified")
TimeoutResult == Failure("Payment timeout - please try again")
SetupFailed == Failure("Payment setup failed: WebAppMainButtonParamInvalid")
PaymentSuccess(itemId) ==
    [success |-> TRUE, payment_id |-> "telegram_stars_T", item_id |-> itemId,
     message |-> "Payment completed successfully via Telegram Stars"]
PaymentErrors ==
    {"Insufficient Stars balance", "Payment was cancelled",
     "Network error - please try again", "Transaction declined by Telegram"}
PaymentOutcomes(itemId) ==
    {PaymentSuccess(itemId)} \cup {Failure(e) : e \in PaymentErrors}

\* JSON.stringify of a PurchaseResult: own properties in insertion order.
JSONStringify(r) ==
    IF r.success
    THEN "{\"success\":true,\"payment_id\":\"" \o r.payment_id
         \o "\",\"item_id\":\"" \o r.item_id
         \o "\",\"message\":\"" \o r.message \o "\"}"
    ELSE "{\"success\":false,\"error\":\"" \o r.error \o "\"}"

\* starsIntegration.isAvailable()
IsAvailable(t) == t.webApp

PrecheckSkipPlatform(t) ==
    IF ~t.mainButton THEN NotSupported
    ELSE IF ~t.user THEN NotIdentified
    ELSE Failure("")

PrecheckSkipUser(t) ==
    IF ~IsAvailable(t) THEN NotAvailable
    ELSE IF ~t.mainButton THEN NotSupported
    ELSE Failure("")

\* The checks of purchaseItem and createTelegramPayment, in their order:
\* the failure they resolve to, or Failure("") when all of them pass.
Precheck(t) ==
    IF ~IsAvailable(t) THEN NotAvailable
    ELSE IF ~t.webApp THEN NotAvailable
    ELSE IF ~t.mainButton THEN NotSupported
    ELSE IF ~t.user THEN NotIdentified
    ELSE Failure("")

\* The MainButton before any purchase.
MainButtonIdle ==
    [isVisible |-> FALSE, isActive |-> TRUE, isProgressVisible |-> FALSE,
     text |-> "", handlers |-> <<>>]

RemoveFrom(seq, x) == SelectSeq(seq, LAMBDA y : y # x)

\* The MainButton calls the code makes.
SetText(mb, text) == [mb EXCEPT !.text = text]
Show(mb) == [mb EXCEPT !.isVisible = TRUE]
Hide(mb) == [mb EXCEPT !.isVisible = FALSE]
ShowProgress(mb) == [mb EXCEPT !.isProgressVisible = TRUE, !.isActive = FALSE]
HideProgress(mb) == [mb EXCEPT !.isProgressVisible = FALSE, !.isActive = TRUE]
OnClick(mb, p) ==
    IF \E i \in 1..Len(mb.handlers) : mb.handlers[i] = p THEN mb
    ELSE [mb EXCEPT !.handlers = Append(mb.handlers, p)]
OffClick(mb, p) == [mb EXCEPT !.handlers = RemoveFrom(mb.handlers, p)]

\* One invocation of PlayDeck_BuyItemWithStars.  settled/result are the
\* promise of createTelegramPayment, relayed says its reaction has run,
\* timer is the 120 s timer.  resolveCalls, relays, sendIndex, clicked and
\* timeout record what happened to the invocation: the calls of resolve,
\* the runs of the reaction and the send it started, whether its click
\* handler ran, and whether its timer fired before or after that.
NewPurchase(itemId) ==
    [itemId |-> itemId, settled |-> FALSE, result |-> Failure(""),
     relayed |-> FALSE, timer |-> FALSE, resolveCalls |-> 0, relays |-> 0,
     sendIndex |-> 0, clicked |-> FALSE, timeout |-> "no"]

ResolveOverwrites(pu, r) ==
    [pu EXCEPT !.settled = TRUE, !.result = r, !.relayed = FALSE,
               !.resolveCalls = pu.resolveCalls + 1]

\* resolve(r) of the invocation's promise: the first call settles it, a
\* later call changes nothing.
Resolve(pu, r) ==
    IF pu.settled THEN [pu EXCEPT !.resolveCalls = pu.resolveCalls + 1]
    ELSE [pu EXCEPT !.settled = TRUE, !.result = r,
                    !.resolveCalls = pu.resolveCalls + 1]

\* A promise reaction is waiting to run: timer callbacks and clicks wait.
MicrotaskPending ==
    \E p \in 1..Len(purchases) : purchases[p].settled /\ ~purchases[p].relayed

\* setupMainButtonPayment up to the timer, when nothing throws.
SetupMainButton(mb, p, itemName) ==
    OnClick(Show(SetText(mb, "Purchase " \o itemName)), p)

\* The host calls PlayDeck_BuyItemWithStars(itemId, ...).  setupThrows says
\* whether MainButton.setText rejects the label.
BuyItemWithStars(itemId, setupThrows) ==
    LET p == Len(purchases) + 1
        pre == Precheck(tg)
        pu == NewPurchase(itemId)
    IN  /\ Len(purchases) < MaxPurchases
        /\ IF pre # Failure("")
           THEN /\ purchases' = Append(purchases, Resolve(pu, pre))
                /\ UNCHANGED mainButton
           ELSE IF setupThrows
           THEN /\ purchases' = Append(purchases, Resolve(pu, SetupFailed))
                /\ mainButton' = Hide(mainButton)
           ELSE /\ purchases' = Append(purchases, [pu EXCEPT !.timer = TRUE])
                /\ mainButton' = SetupMainButton(mainButton, p, itemId)
        /\ hostCall' = HostCall("PlayDeck_BuyItemWithStars", GuardedCall(setupThrows),
                                "undefined", 0, Null)
        /\ UNCHANGED <<tg, payments>>
        /\ UNCHANGED <<bridge, windowUnity, initCall, sends, retryQueue>>
        /\ UNCHANGED adsVars

\* The user presses the confirm button: every attached paymentHandler runs,
\* each shows the progress state and starts its 1.5 s payment timer.
Click ==
    /\ mainButton.isVisible /\ mainButton.isActive
    /\ mainButton.handlers # <<>>
    /\ ~MicrotaskPending
    /\ mainButton' = ShowProgress(mainButton)
    /\ payments' = payments \o
           [i \in 1..Len(mainButton.handlers) |->
               [p |-> mainButton.handlers[i], epoch |-> Len(purchases)]]
    /\ purchases' = [p \in 1..Len(purchases) |->
           IF \E i \in 1..Len(mainButton.handlers) : mainButton.handlers[i] = p
           THEN [purchases[p] EXCEPT !.clicked = TRUE]
           ELSE purchases[p]]
    /\ UNCHANGED tg
    /\ UNCHANGED <<deliveryVars, adsVars>>

\* The oldest payment timer fires with the given outcome: the click path
\* resolves the invocation and tears the button down.
PaymentDone(result) ==
    /\ payments # <<>>
    /\ ~MicrotaskPending
    /\ LET p == Head(payments).p
       IN  /\ result \in PaymentOutcomes(purchases[p].itemId)
           /\ purchases' = [purchases EXCEPT ![p] = Resolve(@, result)]
           /\ mainButton' = HideProgress(Hide(OffClick(mainButton, p)))
    /\ payments' = Tail(payments)
    /\ UNCHANGED tg
    /\ UNCHANGED <<deliveryVars, adsVars>>

\* Timers fire in the order of their deadlines: a 120 s timer waits for the
\* 120 s timers armed before it and for the 1.5 s timers armed before it.
TimerDue(p) ==
    /\ purchases[p].timer
    /\ \A q \in 1..(p - 1) : ~purchases[q].timer
    /\ \A i \in 1..Len(payments) : payments[i].epoch >= p

\* The 120 s timer of invocation p fires.
Timeout(p) ==
    /\ TimerDue(p)
    /\ ~MicrotaskPending
    /\ LET fired == [purchases[p] EXCEPT !.timer = FALSE,
                        !.timeout = IF purchases[p].clicked THEN "afterClick" ELSE "noClick"]
       IN  IF mainButton.isVisible
           THEN /\ mainButton' = Hide(OffClick(mainButton, p))
                /\ purchases' = [purchases EXCEPT ![p] = Resolve(fired, TimeoutResult)]
           ELSE /\ purchases' = [purchases EXCEPT ![p] = fired]
                /\ UNCHANGED mainButton
    /\ UNCHANGED <<tg, payments>>
    /\ UNCHANGED <<deliveryVars, adsVars>>

\* The reaction of PlayDeck_BuyItemWithStars runs: the result is serialized
\* and handed to sendToUnity.
Relay(p) ==
    /\ purchases[p].settled /\ ~purchases[p].relayed
    /\ purchases' = [purchases EXCEPT ![p].relayed = TRUE, ![p].relays = @ + 1,
                                      ![p].sendIndex = Len(sends) + 1]
    /\ sends' = Append(sends, SendToUnity("TelegramStarsManager", "OnPurchaseResult",
                                          JSONStringify(purchases[p].result)))
    /\ retryQueue' = Requeue(retryQueue, Len(sends) + 1,
                             SendToUnity("TelegramStarsManager", "OnPurchaseResult",
                                         JSONStringify(purchases[p].result)))
    /\ UNCHANGED <<bridge, windowUnity, initCall, hostCall>>
    /\ UNCHANGED <<tg, mainButton, payments>>
    /\ UNCHANGED adsVars

\* ==================================================== Ad Readiness Tracker

candidateNames == <<"AdsGram", "Adsgram", "AdsGramSDK", "AdsgramSDK", "sad", "Ads", "adsgram">>
NestedNames == {"sad.AdsGram", "sad.Adsgram"}
GlobalNames == {candidateNames[i] : i \in 1..Len(candidateNames)} \cup NestedNames

\* adsState as the module creates it.
AdsStateInitial == [ready |-> FALSE, globalName |-> Null]

\* detectAdsGram on the globals g: the SDK object found (named by the
\* window path that holds it) and the globalName it records, or Null.
DetectAdsGram(g) ==
    LET hits == {i \in 1..Len(candidateNames) : candidateNames[i] \in g}
    IN  IF hits # {}
        THEN LET first == CHOOSE i \in hits : \A j \in hits : i <= j
             IN  [sdk |-> candidateNames[first], globalName |-> candidateNames[first]]
        ELSE IF "sad" \in g /\ (NestedNames \cap g) # {}
        THEN [sdk |-> IF "sad.AdsGram" \in g THEN "sad.AdsGram" ELSE "sad.Adsgram",
              globalName |-> "sad.AdsGram"]
        ELSE [sdk |-> Null, globalName |-> Null]

\* The SDK-specific initialization that follows a detection: success makes
\* the tracker ready, failure leaves it as it is.
InitializeDetected(st, success) ==
    IF success THEN [st EXCEPT !.ready = TRUE] ELSE st

InitializeWithoutFoundCheck(st, g, success) ==
    InitializeDetected([st EXCEPT !.globalName = DetectAdsGram(g).globalName], success)

\* initializeAdsGramIfPossible
InitializeAdsGramIfPossible(st, g, success) ==
    LET det == DetectAdsGram(g)
    IN  IF det.sdk = Null THEN st
        ELSE InitializeDetected([st EXCEPT !.globalName = det.globalName], success)

\* The detection step of a poll tick: only while not ready.
PollState(st, g, success) ==
    IF ~st.ready THEN InitializeAdsGramIfPossible(st, g, success) ELSE st

\* What a run of initializeAdsGramIfPossible met: the globalName recorded
\* before it, whether an SDK was detected and whether its initialization
\* succeeded.
InitRun(st, g, success) ==
    [called |-> TRUE, before |-> st.globalName,
     detected |-> DetectAdsGram(g).sdk # Null,
     success |-> DetectAdsGram(g).sdk # Null /\ success]

NoInitRun == [called |-> FALSE, before |-> Null, detected |-> FALSE, success |-> FALSE]

PollDoneOnlyWhenExhausted(st, attempts) == attempts >= maxInitAttempts

PollDoneOffByOne(st, attempts) == st.ready \/ attempts > maxInitAttempts

\* The test that ends the poll.
PollDone(st, attempts) == st.ready \/ attempts >= maxInitAttempts

\* A tick of the detection interval.
PollTick(success) ==
    /\ initTimer
    /\ ~MicrotaskPending
    /\ LET st == PollState(adsState, globals, success)
           attempts == initAttempts + 1
       IN  /\ initAttempts' = attempts
           /\ adsState' = st
           /\ lastInit' = IF ~adsState.ready THEN InitRun(adsState, globals, success) ELSE lastInit
           /\ IF PollDone(st, attempts)
              THEN initTimer' = FALSE /\ adFns' = "real" /\ swaps' = swaps + 1
              ELSE UNCHANGED <<initTimer, adFns, swaps>>
    /\ UNCHANGED <<globals, adCalls>>
    /\ UNCHANGED <<deliveryVars, purchaseVars>>

PreloadStateAssignsResult(fns, st, g, success) ==
    IF fns = "real"
    THEN [InitializeAdsGramIfPossible(st, g, success) EXCEPT
             !.ready = (DetectAdsGram(g).sdk # Null /\ success)]
    ELSE st

\* PlayDeck_PreloadAds: the stub only logs, the real one detects again
\* while not ready.
PreloadState(fns, st, g, success) ==
    IF fns = "real" /\ ~st.ready
    THEN InitializeAdsGramIfPossible(st, g, success)
    ELSE st

\* The host calls PlayDeck_PreloadAds().
PreloadAds(success) ==
    /\ adsState' = PreloadState(adFns, adsState, globals, success)
    /\ lastInit' = IF adFns = "real" /\ ~adsState.ready
                   THEN InitRun(adsState, globals, success) ELSE lastInit
    /\ hostCall' = HostCall("PlayDeck_PreloadAds", GuardedCall(FALSE), "undefined", 0, Null)
    /\ UNCHANGED <<initAttempts, initTimer, adFns, globals, adCalls, swaps>>
    /\ UNCHANGED <<bridge, windowUnity, initCall, sends, retryQueue>>
    /\ UNCHANGED purchaseVars

AreAdsAvailableReturnAlwaysZero(fns, st) == 0

\* The value PlayDeck_AreAdsAvailable returns.
AreAdsAvailableReturn(fns, st) ==
    IF fns = "stub" THEN 0 ELSE IF st.ready THEN 1 ELSE 0

\* The host calls PlayDeck_AreAdsAvailable(); the call is recorded.
AreAdsAvailable ==
    /\ adCalls' = [called |-> TRUE, ret |-> AreAdsAvailableReturn(adFns, adsState),
                   readyAtCall |-> adsState.ready, fns |-> adFns]
    /\ hostCall' = HostCall("PlayDeck_AreAdsAvailable", GuardedCall(FALSE),
                            IF AreAdsAvailableReturn(adFns, adsState) = 1 THEN "1" ELSE "0",
                            0, Null)
    /\ UNCHANGED <<adsState, initAttempts, initTimer, adFns, globals, lastInit, swaps>>
    /\ UNCHANGED <<bridge, windowUnity, initCall, sends, retryQueue>>
    /\ UNCHANGED purchaseVars

\* The page (a script that loads late) defines an SDK global; a nested name
\* comes with window.sad.
DefineGlobal(name) ==
    LET g == globals \cup {name} \cup (IF name \in NestedNames THEN {"sad"} ELSE {})
    IN  /\ name \notin globals
        /\ Cardinality(g) <= MaxGlobals
        /\ globals' = g
        /\ UNCHANGED <<adsState, initAttempts, initTimer, adFns, adCalls, lastInit, swaps>>
        /\ UNCHANGED <<deliveryVars, purchaseVars>>

\* What a rewarded-ad or task request does: without a ready SDK it reports
\* failure to the host at once, with one it hands the request to the SDK.
AdRequestSends(fns, st) == fns = "stub" \/ ~st.ready

\* The sends started and the sends owed to purchases not yet relayed stay
\* within MaxSends.
SendRoom ==
    Len(sends) + Cardinality({p \in 1..Len(purchases) : ~purchases[p].relayed}) < MaxSends

\* A rewarded-ad or task request through exposed function fn: the failure
\* report goes to AdsManager's method, ret is what the caller gets when the
\* request is not handed to the SDK.
AdRequest(fn, methodName, blockId, ret) ==
    /\ SendRoom
    /\ IF AdRequestSends(adFns, adsState)
       THEN /\ sends' = Append(sends, SendToUnity("AdsManager", methodName, "false"))
            /\ retryQueue' = Requeue(retryQueue, Len(sends) + 1,
                                     SendToUnity("AdsManager", methodName, "false"))
            /\ hostCall' = HostCall(fn, GuardedCall(FALSE), ret, Len(sends) + 1, blockId)
       ELSE /\ UNCHANGED <<sends, retryQueue>>
            /\ hostCall' = HostCall(fn, GuardedCall(FALSE), "sdk", 0, blockId)
    /\ UNCHANGED <<bridge, windowUnity, initCall>>
    /\ UNCHANGED <<purchaseVars, adsVars>>

\* PlayDeck_ShowRewardedAdForBlock(blockId)
ShowRewardedAdForBlock(blockId) ==
    AdRequest("PlayDeck_ShowRewardedAdForBlock", "OnAdCompleted", blockId, "undefined")

ShowTaskReportsAdCompleted(blockId) ==
    AdRequest("PlayDeck_ShowTaskForBlock", "OnAdCompleted", blockId, "0")

\* PlayDeck_ShowTaskForBlock(blockId)
ShowTaskForBlock(blockId) ==
    AdRequest("PlayDeck_ShowTaskForBlock", "OnTaskCompleted", blockId, "0")

\* PlayDeck_ShowRewardedAd(): the block function with the default block.
ShowRewardedAd ==
    AdRequest("PlayDeck_ShowRewardedAd", "OnAdCompleted", DEFAULT_AD_BLOCK_ID, "undefined")

BlockIds == {DEFAULT_AD_BLOCK_ID, "777"}

\* ============================================================ the system

\* The state once the script has run to its last line, on a page whose
\* window.Telegram is one of platforms.
InitOn(platforms) ==
    /\ bridge = FinalSetup(BridgeObject)
    /\ windowUnity \in {Null, "uA"}
    /\ initCall = [arg |-> Null, outcome |-> "none"]
    /\ sends = <<>>
    /\ retryQueue = <<>>
    /\ tg \in platforms
    /\ mainButton = MainButtonIdle
    /\ purchases = <<>>
    /\ payments = <<>>
    /\ adsState = AdsStateInitial
    /\ initAttempts = 0
    /\ initTimer = TRUE
    /\ adFns = "stub"
    /\ globals = {}
    /\ adCalls = [called |-> FALSE, ret |-> 0, readyAtCall |-> FALSE, fns |-> "stub"]
    /\ hostCall = NoHostCall
    /\ lastInit = NoInitRun
    /\ swaps = 0

TgFull == [webApp |-> TRUE, mainButton |-> TRUE, user |-> TRUE]
Init == InitOn(TgStates)
InitFullPlatform == InitOn({TgFull})

\* Message Delivery with the calls that start sends.
NextDelivery ==
    \/ \E u \in {"uA", "uB"} : CallInit(u)
    \/ \E u \in Instances \cup {Null} : SetWindowUnity(u)
    \/ \E b \in BlockIds : ShowRewardedAdForBlock(b)
    \/ \E b \in BlockIds : ShowTaskForBlock(b)
    \/ ShowRewardedAd
    \/ \E i \in 1..Len(sends) : RetryTimer(i)

\* The purchase flow up to the hand-over to Message Delivery.
NextPurchase ==
    \/ \E itemId \in Items, setupThrows \in BOOLEAN : BuyItemWithStars(itemId, setupThrows)
    \/ Click
    \/ \E p \in 1..Len(purchases) : \E r \in PaymentOutcomes(purchases[p].itemId) : PaymentDone(r)
    \/ \E p \in 1..Len(purchases) : Timeout(p)
    \/ \E p \in 1..Len(purchases) : Relay(p)

\* The ad tracker with the ad functions the host calls.
NextAds ==
    \/ \E success \in BOOLEAN : PollTick(success)
    \/ \E success \in BOOLEAN : PreloadAds(success)
    \/ AreAdsAvailable
    \/ \E name \in GlobalNames : DefineGlobal(name)
    \/ \E b \in BlockIds : ShowRewardedAdForBlock(b)
    \/ \E b \in BlockIds : ShowTaskForBlock(b)
    \/ ShowRewardedAd

\* PlayDeck_BuyItemWithStars called while its send still fits MaxSends.
BuyBeforeInit(itemId, setupThrows) ==
    /\ Len(sends) + Len(purchases) < MaxSends
    /\ BuyItemWithStars(itemId, setupThrows)

\* Every function the host can call while init() has not been called and
\* the detection poll has not ended (the stubs are installed), with the
\* retry timers and promise reactions that run between the calls.
NextSurface ==
    \/ SetLoading
    \/ \E postThrows \in BOOLEAN : GameEnd(postThrows)
    \/ Analytics
    \/ AreAdsAvailable
    \/ \E success \in BOOLEAN : PreloadAds(success)
    \/ \E b \in BlockIds : ShowRewardedAdForBlock(b)
    \/ \E b \in BlockIds : ShowTaskForBlock(b)
    \/ ShowRewardedAd
    \/ \E itemId \in Items, setupThrows \in BOOLEAN : BuyBeforeInit(itemId, setupThrows)
    \/ \E p \in 1..Len(purchases) : Relay(p)
    \/ \E i \in 1..Len(sends) : RetryTimer(i)

Next == NextDelivery \/ NextPurchase \/ NextAds \/ NextSurface

Spec == Init /\ [][Next]_vars
\* Each part is also checked on its own: the actions of one part write only
\* that part's variables and the sends they start, and read no variable
\* another part writes except the sends' inputs (bridge, windowUnity).
SpecDelivery == InitFullPlatform /\ [][NextDelivery]_vars
SpecPurchase == Init /\ [][NextPurchase]_vars
SpecAds == InitFullPlatform /\ [][NextAds]_vars
SpecSurface == Init /\ [][NextSurface]_vars

\* Timers fire and promise reactions run; the user and the host are free
\* never to act.
SpecPurchaseFair ==
    /\ SpecPurchase
    /\ WF_vars(\E p \in 1..Len(purchases) : Timeout(p))
    /\ WF_vars(\E p \in 1..Len(purchases) : \E r \in PaymentOutcomes(purchases[p].itemId) : PaymentDone(r))
    /\ WF_vars(\E p \in 1..Len(purchases) : Relay(p))

\* ================================================================ claims

\* C1: after the module has loaded, init(u) returns normally and leaves
\* bridge.unityInstance equal to u.
C1_InitRegistersHandle ==
    initCall.outcome # "none" =>
        /\ initCall.outcome = "returned"
        /\ bridge.unityInstance = initCall.arg

\* No MainButton call has thrown during any purchase so far.
NoSetupFailure ==
    \A q \in 1..Len(purchases) : purchases[q].result # SetupFailed

\* C2: every invocation of PlayDeck_BuyItemWithStars eventually hands its
\* result to sendToUnity, also when it was started while an earlier
\* purchase's timer was pending.  Stated for the runs in which no
\* MainButton call throws, where the claim has to hold as well.
C2_EveryPurchaseRelayed ==
    \A p \in 1..MaxPurchases :
        (Len(purchases) >= p) ~>
            (~NoSetupFailure \/ (Len(purchases) >= p /\ purchases[p].relays >= 1))

\* C3: per invocation at most one outcome is resolved and at most one
\* OnPurchaseResult send is started; the first resolve fixes the relayed
\* result, a later resolve changes nothing.
C3_SingleOutcome ==
    /\ [](\A p \in 1..Len(purchases) :
            /\ purchases[p].relays <= 1
            /\ purchases[p].relays = 1 =>
                  /\ sends[purchases[p].sendIndex].objectName = "TelegramStarsManager"
                  /\ sends[purchases[p].sendIndex].methodName = "OnPurchaseResult"
                  /\ sends[purchases[p].sendIndex].message = JSONStringify(purchases[p].result))
    /\ [][\A p \in 1..Len(purchases) :
            purchases[p].settled =>
                /\ purchases'[p].settled
                /\ purchases'[p].result = purchases[p].result]_vars

C3_Witness ==
    \E p \in 1..Len(purchases) :
        /\ purchases[p].resolveCalls >= 2
        /\ purchases[p].timeout = "afterClick"
        /\ purchases[p].relays = 1

\* C4: when the 120 s timer of a purchase fires and the user has not
\* clicked since the purchase started, the purchase's click handler is
\* detached and its result is exactly the timeout failure.  Stated for the
\* states in which no MainButton call has thrown.
C4_TimeoutWithoutClick ==
    \A p \in 1..Len(purchases) :
        (purchases[p].timeout = "noClick" /\ NoSetupFailure) =>
            /\ \A i \in 1..Len(mainButton.handlers) : mainButton.handlers[i] # p
            /\ purchases[p].settled
            /\ purchases[p].result = TimeoutResult

\* C5: without window.Telegram.WebApp every purchase resolves to the
\* "not available" failure and nothing after the platform check happens:
\* the button is untouched, no handler is attached, no timer is armed.
C5_AbsentPlatformShortCircuits ==
    ~tg.webApp =>
        /\ mainButton = MainButtonIdle
        /\ payments = <<>>
        /\ \A p \in 1..Len(purchases) :
              /\ purchases[p].settled
              /\ purchases[p].result = NotAvailable
              /\ ~purchases[p].timer

C5_Witness ==
    /\ ~tg.webApp
    /\ Len(purchases) >= 1
    /\ purchases[1].relays = 1
    /\ sends[purchases[1].sendIndex].message =
           "{\"success\":false,\"error\":\"Telegram WebApp not available\"}"

\* C6 as stated: with the platform available and no user id, every purchase
\* resolves to "User not identified", whatever else the platform holds.
C6_NoUserAlwaysNotIdentified ==
    (tg.webApp /\ ~tg.user) =>
        \A p \in 1..Len(purchases) :
            purchases[p].settled /\ purchases[p].result = NotIdentified

\* C6 amended: with the platform available, the MainButton present and no
\* user id, every purchase resolves to "User not identified".
C6_NoUserWithMainButton ==
    (tg.webApp /\ tg.mainButton /\ ~tg.user) =>
        /\ mainButton = MainButtonIdle
        /\ \A p \in 1..Len(purchases) :
              purchases[p].settled /\ purchases[p].result = NotIdentified

C6_Witness ==
    /\ tg.webApp /\ tg.mainButton /\ ~tg.user
    /\ Len(purchases) >= 1
    /\ purchases[1].relays = 1

\* C7: a logical send makes at most 30 attempts; once it has given up no
\* timer of it is pending and nothing of it changes any more.
C7_AttemptsBounded ==
    /\ [](\A i \in 1..Len(sends) :
            /\ sends[i].tries <= UNITY_SEND_MAX_RETRIES
            /\ sends[i].status = "gaveup" => ~sends[i].timer)
    /\ [][\A i \in 1..Len(sends) :
            sends[i].status = "gaveup" => sends'[i] = sends[i]]_vars

C7_Witness ==
    \E i \in 1..Len(sends) :
        /\ sends[i].status = "gaveup"
        /\ sends[i].tries = UNITY_SEND_MAX_RETRIES
        /\ ~sends[i].timer

\* C8 as stated: after the N-th failed attempt, for every N <= 30, a
\* further retry is scheduled.
C8_RetryAfterEachOf30 ==
    \A i \in 1..Len(sends) :
        (sends[i].status # "sent" /\ sends[i].tries >= 1
            /\ sends[i].tries <= UNITY_SEND_MAX_RETRIES) => sends[i].timer

\* C8 amended: after the N-th failed attempt a retry is scheduled for
\* every N <= 29; the 30th failure gives up, and after the give-up the send
\* never reaches the host.
C8_RetryUntil30th ==
    /\ [](\A i \in 1..Len(sends) :
            sends[i].status # "sent" =>
                /\ sends[i].tries < UNITY_SEND_MAX_RETRIES =>
                      (sends[i].timer /\ sends[i].status = "pending")
                /\ sends[i].tries >= UNITY_SEND_MAX_RETRIES =>
                      (sends[i].tries = UNITY_SEND_MAX_RETRIES
                          /\ sends[i].status = "gaveup" /\ ~sends[i].timer))
    /\ [][\A i \in 1..Len(sends) :
            sends[i].status = "gaveup" =>
                (sends'[i].status = "gaveup" /\ sends'[i].receiver = Null)]_vars

C8_Witness ==
    \E i \in 1..Len(sends) :
        /\ sends[i].tries = UNITY_SEND_MAX_RETRIES - 1
        /\ sends[i].status = "pending"
        /\ sends[i].timer

\* C9: once adsState.ready is true it stays true.
C9_ReadyMonotonic == [][adsState.ready => adsState'.ready]_vars

C9_Witness ==
    /\ adsState.ready
    /\ adFns = "real"
    /\ adCalls.called /\ adCalls.readyAtCall

\* C10: every call of PlayDeck_AreAdsAvailable returns 1 exactly when
\* adsState.ready is true at the call, and 0 otherwise, with the stub and
\* with the real function.
C10_AreAdsAvailableReflectsReady ==
    adCalls.called =>
        /\ adCalls.ret \in {0, 1}
        /\ adCalls.ret = 1 <=> adCalls.readyAtCall

C10_Witness ==
    /\ adCalls.called
    /\ adCalls.fns = "real"
    /\ adCalls.ret = 1

\* C11: as long as init() has not been called, every call of an exposed
\* function (the stubs and PlayDeck_BuyItemWithStars) returns normally, and
\* a send whose attempt found no host instance has a retry scheduled and is
\* still pending (until the 30th attempt); while no instance exists no send
\* is delivered or dropped early.
C11_BeforeInitNeverThrows ==
    initCall.outcome = "none" =>
        /\ hostCall.outcome = "returned"
        /\ \A i \in 1..Len(sends) :
              (sends[i].lastAttempt = "noInstance" /\ sends[i].tries < UNITY_SEND_MAX_RETRIES) =>
                  sends[i].timer /\ sends[i].status = "pending"
        /\ PickInstance(bridge, windowUnity) = Null =>
              \A i \in 1..Len(sends) :
                  /\ sends[i].status # "sent"
                  /\ sends[i].status = "gaveup" => sends[i].tries = UNITY_SEND_MAX_RETRIES

C11_Witness ==
    /\ initCall.outcome = "none"
    /\ hostCall.fn = "PlayDeck_ShowTaskForBlock"
    /\ hostCall.sendIndex > 0
    /\ Len(sends) >= hostCall.sendIndex
    /\ sends[hostCall.sendIndex].lastAttempt = "noInstance"
    /\ sends[hostCall.sendIndex].tries = 1
    /\ sends[hostCall.sendIndex].timer

\* C12: at most one purchase invocation has its click handler attached to
\* the MainButton at any time.
C12_AtMostOneHandler ==
    Len(mainButton.handlers) <= 1

AdRequestFns ==
    {"PlayDeck_ShowRewardedAdForBlock", "PlayDeck_ShowTaskForBlock", "PlayDeck_ShowRewardedAd"}

\* C13: a rewarded-ad or task request made while adsState.ready is false,
\* with the stubs or with the swapped functions installed, starts a send to
\* AdsManager with payload "false": OnTaskCompleted (and return value 0) for
\* ShowTaskForBlock, OnAdCompleted for ShowRewardedAdForBlock and for
\* ShowRewardedAd, which passes the default block identifier.
C13_NotReadyReportsFailure ==
    (hostCall.fn \in AdRequestFns /\ ~hostCall.ready) =>
        /\ hostCall.sendIndex \in 1..Len(sends)
        /\ sends[hostCall.sendIndex].objectName = "AdsManager"
        /\ sends[hostCall.sendIndex].message = "false"
        /\ sends[hostCall.sendIndex].methodName =
              (IF hostCall.fn = "PlayDeck_ShowTaskForBlock"
               THEN "OnTaskCompleted" ELSE "OnAdCompleted")
        /\ hostCall.fn = "PlayDeck_ShowTaskForBlock" => hostCall.ret = "0"
        /\ hostCall.fn = "PlayDeck_ShowRewardedAd" => hostCall.blockId = DEFAULT_AD_BLOCK_ID

C13_Witness ==
    /\ hostCall.fn = "PlayDeck_ShowTaskForBlock"
    /\ hostCall.fns = "real"
    /\ ~hostCall.ready
    /\ hostCall.sendIndex \in 1..Len(sends)
    /\ sends[hostCall.sendIndex].methodName = "OnTaskCompleted"

\* C14: the detection poll ticks at most 10 times; the timer is armed
\* exactly as long as the ad functions have not been swapped, and it is
\* never armed once adsState.ready holds or the counter has reached 10.
\* Every change of the counter is one tick of the armed timer, which ends
\* the poll and swaps the functions exactly when ready or the 10th attempt
\* is reached; once the timer is cancelled there is no further tick and no
\* further swap.
C14_PollEndsOnce ==
    /\ [](/\ initAttempts <= maxInitAttempts
          /\ swaps <= 1
          /\ initTimer <=> swaps = 0
          /\ adFns = "real" <=> swaps = 1
          /\ initTimer => (~adsState.ready /\ initAttempts < maxInitAttempts))
    /\ [][/\ initAttempts' # initAttempts =>
               /\ initTimer
               /\ initAttempts' = initAttempts + 1
               /\ initTimer' <=> ~(adsState'.ready \/ initAttempts' >= maxInitAttempts)
               /\ swaps' = IF initTimer' THEN swaps ELSE swaps + 1
          /\ ~initTimer =>
               /\ ~initTimer'
               /\ initAttempts' = initAttempts
               /\ swaps' = swaps
               /\ adFns' = adFns]_vars

C14_Witness ==
    /\ ~initTimer
    /\ swaps = 1
    /\ adFns = "real"
    /\ initAttempts = maxInitAttempts
    /\ ~adsState.ready
    /\ hostCall.fn = "PlayDeck_PreloadAds"
    /\ hostCall.fns = "real"

\* C15: when the 120 s timer of a purchase fires after that purchase was
\* resolved by its click path, the step changes neither the MainButton's
\* visibility nor the attached handlers nor the outcome of any purchase.
C15_ResolvedTimerIsInert ==
    [][\A p \in 1..Len(purchases) :
          (/\ purchases[p].timer /\ ~purchases'[p].timer
           /\ purchases[p].clicked
           /\ purchases[p].settled
           /\ purchases[p].result \in PaymentOutcomes(purchases[p].itemId)) =>
              /\ mainButton'.isVisible = mainButton.isVisible
              /\ mainButton'.handlers = mainButton.handlers
              /\ \A q \in 1..Len(purchases) :
                    /\ purchases'[q].settled = purchases[q].settled
                    /\ purchases'[q].result = purchases[q].result]_vars

\* C16: an attempt whose SendMessage threw does not make the exposed
\* function throw, is counted as one attempt, delivers nothing, and is
\* followed by the retry path of a missing instance: a retry is armed
\* while fewer than 30 attempts were made, and the send is given up
\* without a timer at the 30th.
C16_ThrowTakesRetryPath ==
    /\ [](/\ hostCall.outcome = "returned"
          /\ \A i \in 1..Len(sends) :
                sends[i].lastAttempt = "threw" =>
                    /\ sends[i].receiver = Null
                    /\ sends[i].tries \in 1..UNITY_SEND_MAX_RETRIES
                    /\ sends[i].tries < UNITY_SEND_MAX_RETRIES =>
                          (sends[i].timer /\ sends[i].status = "pending")
                    /\ sends[i].tries = UNITY_SEND_MAX_RETRIES =>
                          (~sends[i].timer /\ sends[i].status = "gaveup"))
    /\ [][\A i \in 1..Len(sends) :
              (sends'[i] # sends[i] /\ sends'[i].lastAttempt = "threw") =>
                  sends'[i].tries = sends[i].tries + 1]_vars

C16_Witness ==
    \E i \in 1..Len(sends) :
        /\ sends[i].lastAttempt = "threw"
        /\ sends[i].tries = 2
        /\ sends[i].timer
        /\ hostCall.sendIndex = i
        /\ windowUnity = "uThrow"

\* The tracker is EXHAUSTED: the 10th tick has passed, the poll has ended
\* and no SDK was ever detected.
Exhausted ==
    /\ initAttempts = maxInitAttempts
    /\ ~initTimer
    /\ adsState = AdsStateInitial

\* C17 as stated: from an EXHAUSTED state no step changes adsState.
C17_ExhaustedAbsorbing ==
    [][Exhausted => adsState' = adsState]_vars

\* C17, amended: from an EXHAUSTED state the poll is never re-armed and its
\* counter stays; adsState changes only in a PlayDeck_PreloadAds call made
\* while an SDK global is defined, which records the detected global's name
\* (and may make the tracker ready).
C17_ExhaustedUntilPreloadDetects ==
    [][Exhausted =>
          /\ ~initTimer'
          /\ initAttempts' = initAttempts
          /\ adFns' = adFns
          /\ adsState' # adsState =>
                /\ hostCall'.fn = "PlayDeck_PreloadAds"
                /\ DetectAdsGram(globals).sdk # Null
                /\ adsState'.globalName = DetectAdsGram(globals).globalName]_vars

C17_Witness ==
    /\ initAttempts = maxInitAttempts
    /\ ~initTimer
    /\ hostCall.fn = "PlayDeck_PreloadAds"
    /\ hostCall.fns = "real"
    /\ ~hostCall.ready
    /\ lastInit.detected
    /\ lastInit.before = Null
    /\ adsState.globalName # Null

\* C18: when the last run of the initialization (in a poll tick or in
\* PlayDeck_PreloadAds) detected an SDK global and succeeded, adsState.ready
\* holds with the detected name recorded, the poll has ended and the ad
\* functions are swapped; every PlayDeck_AreAdsAvailable call made while
\* ready holds is answered by the swapped function with 1.
C18_DetectedAndInitializedIsReady ==
    /\ lastInit.success =>
          /\ adsState.ready
          /\ adsState.globalName # Null
          /\ ~initTimer
          /\ adFns = "real"
          /\ AreAdsAvailableReturn(adFns, adsState) = 1
    /\ (hostCall.fn = "PlayDeck_AreAdsAvailable" /\ hostCall.ready) =>
          /\ hostCall.fns = "real"
          /\ hostCall.ret = "1"

C18_Witness ==
    /\ lastInit.success
    /\ initAttempts < maxInitAttempts
    /\ hostCall.fn = "PlayDeck_AreAdsAvailable"
    /\ hostCall.ready
    /\ hostCall.ret = "1"

\* The SDK is exposed through the nested namespace: window.sad.AdsGram or
\* window.sad.Adsgram is defined and no candidate name before 'sad' is.
NestedExposed ==
    /\ (NestedNames \cap globals) # {}
    /\ \A i \in 1..Len(candidateNames) :
          candidateNames[i] \in globals =>
              \E j \in 1..i : candidateNames[j] = "sad"

\* C19: a detection made while the SDK is exposed through the nested
\* namespace records globalName 'sad.AdsGram'.
C19_NestedNamespaceDetected ==
    [][(/\ NestedExposed
        /\ adsState.globalName = Null
        /\ adsState'.globalName # Null) =>
            adsState'.globalName = "sad.AdsGram"]_vars

\* C20: for a purchase whose confirm button was clicked before its 120 s
\* timer fired, the relayed result is an outcome of the payment primitive,
\* never the timeout failure.
C20_ClickedResultIsPaymentOutcome ==
    \A p \in 1..Len(purchases) :
        (/\ purchases[p].clicked
         /\ purchases[p].timeout # "noClick"
         /\ purchases[p].relays >= 1) =>
            /\ purchases[p].result # TimeoutResult
            /\ purchases[p].result \in PaymentOutcomes(purchases[p].itemId)

====
